---- MODULE Spec2Model ----
(***************************************************************************)
(* Model of pro-test.py: the OSINT news pipeline                           *)
(*   fetch_all_news  ->  full_categorize                                   *)
(* with detect_harmful_words and fetch_from_gemini_sentiment_intent.       *)
(*                                                                         *)
(* A Python str is a sequence of one-character strings, so that the        *)
(* regular expressions and substring tests of the code are computed on the *)
(* characters.  The outside world (the HTTP responses of the sources, the   *)
(* outcomes of the Gemini calls) is part of the state: http[k] is what the *)
(* k-th configured source answers, gemini[k] what the k-th call to         *)
(* generate_content does.                                                  *)
(***************************************************************************)
EXTENDS Integers, Sequences, FiniteSets, TLC

\* ------------------------------------------------------------------ bounds
\* longest list of records in one provider response
MaxItems == 2
\* longest api_configs list handed to fetch_all_news on its own
MaxSources == 2
\* longest article list handed to full_categorize on its own
MaxArticles == 2
\* a classifier reply (or exception message) is at most this many ReplyParts
MaxReplyParts == 3
\* a text handed to detect_harmful_words is at most this many TextParts
MaxTextParts == 3

\* ------------------------------------------------------- characters, str
UPPER == <<"A", "B", "C", "D", "E", "F", "G", "H", "I", "J", "K", "L", "M", "N", "O", "P", "Q", "R", "S", "T", "U", "V", "W", "X", "Y", "Z">>

LOWER == <<"a", "b", "c", "d", "e", "f", "g", "h", "i", "j", "k", "l", "m", "n", "o", "p", "q", "r", "s", "t", "u", "v", "w", "x", "y", "z">>

DIGITS == <<"0", "1", "2", "3", "4", "5", "6", "7", "8", "9">>

Range(q) == {q[k] : k \in 1..Len(q)}

Min(S) == CHOOSE x \in S : \A y \in S : x <= y

Max(S) == CHOOSE x \in S : \A y \in S : x >= y

\* the lower-case letter of each upper-case letter
LowerOf == [c \in Range(UPPER) |-> LOWER[CHOOSE k \in 1..Len(UPPER) : UPPER[k] = c]]

\* str.lower() / re.IGNORECASE on one character
lower_char(c) == IF c \in DOMAIN LowerOf THEN LowerOf[c] ELSE c

\* str.lower()
lower(s) == [k \in 1..Len(s) |-> lower_char(s[k])]

\* the class [a-zA-Z0-9]
AlnumChars == Range(UPPER) \cup Range(LOWER) \cup Range(DIGITS)

isalnum(c) == c \in AlnumChars

\* the class \w of re
IsWordChar(c) == isalnum(c) \/ c = "_"

\* the whitespace str.strip() removes
IsSpace(c) == c \in {" ", "\t", "\n"}

\* pat occurs in s starting at position p
MatchAt(s, pat, p) ==
    /\ p >= 1
    /\ p + Len(pat) - 1 <= Len(s)
    /\ \A k \in 1..Len(pat) : s[p + k - 1] = pat[k]

\* pat in s
StrIn(pat, s) == \E p \in 1..(Len(s) - Len(pat) + 1) : MatchAt(s, pat, p)

\* s.startswith(pre)
startswith(s, pre) == MatchAt(s, pre, 1)

\* s.strip()
strip(s) ==
    LET keep == {k \in 1..Len(s) : ~IsSpace(s[k])}
    IN  IF keep = {} THEN <<>> ELSE SubSeq(s, Min(keep), Max(keep))

\* the result of a failed re.search
NoMatch == [found |-> FALSE, group |-> <<>>]

\* last position of the greedy run [a-zA-Z0-9]+ that starts at b
AlnumRunEnd(s, b) ==
    CHOOSE e \in b..Len(s) :
        /\ \A k \in b..e : isalnum(s[k])
        /\ e = Len(s) \/ ~isalnum(s[e + 1])

\* re.search(tok + '([a-zA-Z0-9]+)', s): leftmost tok directly followed by
\* an alphanumeric; group(1) is the longest alphanumeric run there
search_label(tok, s) ==
    LET hits == {p \in 1..Len(s) :
                    /\ MatchAt(s, tok, p)
                    /\ p + Len(tok) <= Len(s)
                    /\ isalnum(s[p + Len(tok)])}
    IN  IF hits = {} THEN NoMatch
        ELSE LET b == Min(hits) + Len(tok)
             IN  [found |-> TRUE, group |-> SubSeq(s, b, AlnumRunEnd(s, b))]

\* last position of the run .* that starts at b ('.' is any character but
\* a newline); b - 1 when the run is empty
DotRunEnd(s, b) ==
    CHOOSE e \in (b - 1)..Len(s) :
        /\ \A k \in b..e : s[k] # "\n"
        /\ e = Len(s) \/ s[e + 1] = "\n"

REASON_TOKEN == <<"R", "E", "A", "S", "O", "N", "=">>

\* re.search(r'REASON=(.*)', s)
search_reason(s) ==
    LET hits == {p \in 1..Len(s) : MatchAt(s, REASON_TOKEN, p)}
    IN  IF hits = {} THEN NoMatch
        ELSE LET b == Min(hits) + Len(REASON_TOKEN)
             IN  [found |-> TRUE, group |-> SubSeq(s, b, DotRunEnd(s, b))]

\* re.sub("<.*?>", "", s): every span from a "<" to the nearest ">" on the
\* same line is removed
RECURSIVE remove_tags(_)
remove_tags(s) ==
    IF s = <<>> THEN <<>>
    ELSE LET closes == {q \in 2..Len(s) :
                            /\ s[q] = ">"
                            /\ \A k \in 2..(q - 1) : s[k] # "\n"}
         IN  IF Head(s) = "<" /\ closes # {}
             THEN remove_tags(SubSeq(s, Min(closes) + 1, Len(s)))
             ELSE <<Head(s)>> \o remove_tags(Tail(s))

\* -------------------------------------------------------- Python values
\* a scalar value: None, a str, or a number (its digits in s)
None == [t |-> "none", s |-> <<>>]

Str(s) == [t |-> "str", s |-> s]

Num(s) == [t |-> "num", s |-> s]

\* bool(v) for a scalar
truthy(v) ==
    \/ v.t = "str" /\ v.s # <<>>
    \/ v.t = "num" /\ v.s # <<"0">>

\* str(v)
str(v) == IF v.t = "none" THEN <<"N", "o", "n", "e">> ELSE v.s

\* a or b
Or(a, b) == IF truthy(a) THEN a ELSE b

\* a keywords value: None, a list of str, or a non-zero number
KwNone == [t |-> "none", l |-> <<>>]

KwList(l) == [t |-> "list", l |-> l]

KwNum == [t |-> "num", l |-> <<>>]

\* bool(v) for a keywords value
kw_truthy(v) == (v.t = "list" /\ v.l # <<>>) \/ v.t = "num"

\* ----------------------------------------------------------- JSON values
\* a field of a JSON object as dict.get sees it: absent, null, or a value
Missing == [t |-> "missing", s |-> <<>>]

Null == [t |-> "null", s |-> <<>>]

\* d.get(key)
Get(f) == IF f.t \in {"missing", "null"} THEN None ELSE f

\* d.get(key, default)
GetDefault(f, d) == IF f.t = "missing" THEN d ELSE Get(f)

KwMissing == [t |-> "missing", l |-> <<>>]

KwNull == [t |-> "null", l |-> <<>>]

\* item.get("keywords")
KwGet(f) == IF f.t \in {"missing", "null"} THEN KwNone ELSE f

\* ------------------------------------------------ detect_harmful_words
HARMFUL_KEYWORDS ==
    << <<"s", "c", "a", "m">>, <<"f", "r", "a", "u", "d">>, <<"b", "o", "m", "b">>, <<"a", "t", "t", "a", "c", "k">>, <<"t", "e", "r", "r", "o", "r">>, <<"h", "a", "c", "k">>,
       <<"t", "h", "r", "e", "a", "t">>, <<"a", "r", "r", "e", "s", "t", "e", "d">>, <<"k", "i", "l", "l">>, <<"b", "a", "d">>, <<"m", "u", "r", "d", "e", "r">>, <<"s", "h", "o", "o", "t">> >>

\* position k of s holds a \w character
IsW(s, k) == k \in 1..Len(s) /\ IsWordChar(s[k])

\* \b matches between positions k - 1 and k of s
WordBoundary(s, k) == IsW(s, k - 1) # IsW(s, k)

\* the search without the two \b: a term inside a longer word counts
search_word_anywhere(word, s) == StrIn(lower(word), lower(s))

\* re.search(r'\b{}\b'.format(re.escape(word)), s, re.IGNORECASE)
\* (re.escape is the identity on the lexicon's terms: they are letters)
search_word(word, s) ==
    LET ls == lower(s)
        lw == lower(word)
    IN  \E p \in 1..Len(s) :
            /\ MatchAt(ls, lw, p)
            /\ WordBoundary(s, p)
            /\ WordBoundary(s, p + Len(word))

\* list(found): the elements of a set in some order, each once
RECURSIVE SetToList(_)
SetToList(S) ==
    IF S = {} THEN <<>>
    ELSE LET x == CHOOSE x \in S : TRUE
         IN  <<x>> \o SetToList(S \ {x})

\* detect_harmful_words(text)
detect_harmful_words(text) ==
    LET hits == IF truthy(text)
                THEN {lower(word) : word \in
                         {w \in Range(HARMFUL_KEYWORDS) : search_word(w, str(text))}}
                ELSE {}
    IN  SetToList(hits)

\* ------------------------------------------------------ provider JSON
\* One record of a provider response.  dict: the record is a JSON object
\* (else item.get raises).  text is "snippet" (wikipedia) or "description";
\* name is source.name (newsapi) or "source_name" (newsdata); source is the
\* shape of the newsapi "source" field: "missing", "null", "obj" or "other";
\* link is "link"/"url", pub_date is "pubDate"/"publishedAt".
Item(title, txt, keywords) ==
    [dict |-> TRUE, title |-> title, text |-> txt, keywords |-> keywords,
     source |-> "obj", name |-> Missing, source_id |-> Missing,
     link |-> Missing, pub_date |-> Missing, pageid |-> Missing]

\* A response body as resp.json() returns it.  top: "obj" when the top
\* level is a JSON object; query: the shape of data["query"]; list: the
\* shape of the record list (query.search, results, articles), each one of
\* "missing", "null", the expected shape, or "other"; items: the records.
Body(status, items) ==
    [top |-> "obj", status |-> status, query |-> "obj", list |-> "list",
     items |-> items]

\* the outcome of lines 76-78 for one source
HttpOk(data) == [ok |-> TRUE, err |-> "", data |-> data]

HttpFail(err) == [ok |-> FALSE, err |-> err, data |-> Body(Missing, <<>>)]

\* what iterating the record list does: "raise" when the container cannot
\* be walked (None, a number), else the records walked
WalkList(data) ==
    CASE data.list = "missing" -> [raise |-> FALSE, items |-> <<>>]
      [] data.list = "list"    -> [raise |-> FALSE, items |-> data.items]
      [] OTHER                 -> [raise |-> TRUE, items |-> <<>>]

WIKI_LINK == <<"h", "t", "t", "p", "s", ":", "/", "/", "e", "n", ".", "w", "i", "k", "i", "p", "e", "d", "i", "a", ".", "o", "r", "g", "/", "?", "c", "u", "r", "i", "d", "=">>

\* lines 87-95: does building the article of one wikipedia record raise
WikiItemRaises(item) ==
    \/ ~item.dict
    \/ GetDefault(item.text, Str(<<>>)).t # "str"

\* lines 87-95
WikiArticle(item) ==
    [source |-> Str(<<"W", "i", "k", "i", "p", "e", "d", "i", "a">>),
     title |-> Get(item.title),
     description |-> Str(remove_tags(GetDefault(item.text, Str(<<>>)).s)),
     link |-> Str(WIKI_LINK \o str(Get(item.pageid))),
     pub_date |-> Str(<<>>),
     keywords |-> KwList(<<>>),
     api_type |-> "wikipedia"]

\* lines 101-109
NewsDataItemRaises(item) == ~item.dict

\* item.get("keywords") or []
KwOrEmpty(v) == IF kw_truthy(v) THEN v ELSE KwList(<<>>)

\* lines 101-109
NewsDataArticle(item) ==
    [source |-> Or(Or(Get(item.source_id), Get(item.name)), Str(<<"N", "e", "w", "s", "D", "a", "t", "a", ".", "i", "o">>)),
     title |-> Get(item.title),
     description |-> Or(Get(item.text), Str(<<>>)),
     link |-> Get(item.link),
     pub_date |-> Get(item.pub_date),
     keywords |-> KwOrEmpty(KwGet(item.keywords)),
     api_type |-> "news"]

\* lines 115-123: item.get("source", {}).get("name", "NewsAPI") raises
\* when "source" is null or no object
NewsApiItemRaises(item) ==
    \/ ~item.dict
    \/ item.source \in {"null", "other"}

\* lines 115-123
NewsApiArticle(item) ==
    [source |-> IF item.source = "missing" THEN Str(<<"N", "e", "w", "s", "A", "P", "I">>)
                ELSE GetDefault(item.name, Str(<<"N", "e", "w", "s", "A", "P", "I">>)),
     title |-> Get(item.title),
     description |-> Or(Get(item.text), Str(<<>>)),
     link |-> Get(item.link),
     pub_date |-> Get(item.pub_date),
     keywords |-> KwList(<<>>),
     api_type |-> "news"]

\* the three outcomes of lines 84-123 for one response
Raised == [result |-> "raise", articles |-> <<>>]

Skipped == [result |-> "continue", articles |-> <<>>]

Parsed(articles) == [result |-> "articles", articles |-> articles]

\* lines 85-95
parse_wikipedia(data) ==
    IF data.top # "obj" \/ data.query \in {"null", "other"} THEN Raised
    ELSE IF data.query = "missing" THEN Parsed(<<>>)
    ELSE LET w == WalkList(data)
         IN  IF w.raise \/ \E k \in 1..Len(w.items) : WikiItemRaises(w.items[k])
             THEN Raised
             ELSE Parsed([k \in 1..Len(w.items) |-> WikiArticle(w.items[k])])

\* lines 96-109
parse_newsdata(data) ==
    IF data.top # "obj" THEN Raised
    ELSE IF Get(data.status) # Str(<<"s", "u", "c", "c", "e", "s", "s">>) THEN Skipped
    ELSE LET w == WalkList(data)
         IN  IF w.raise \/ \E k \in 1..Len(w.items) : NewsDataItemRaises(w.items[k])
             THEN Raised
             ELSE Parsed([k \in 1..Len(w.items) |-> NewsDataArticle(w.items[k])])

\* the newsapi branch without the check of the status field
parse_newsapi_any_status(data) ==
    IF data.top # "obj" THEN Raised
    ELSE LET w == WalkList(data)
         IN  IF w.raise \/ \E k \in 1..Len(w.items) : NewsApiItemRaises(w.items[k])
             THEN Raised
             ELSE Parsed([k \in 1..Len(w.items) |-> NewsApiArticle(w.items[k])])

\* lines 110-123
parse_newsapi(data) ==
    IF data.top # "obj" THEN Raised
    ELSE IF Get(data.status) # Str(<<"o", "k">>) THEN Skipped
    ELSE LET w == WalkList(data)
         IN  IF w.raise \/ \E k \in 1..Len(w.items) : NewsApiItemRaises(w.items[k])
             THEN Raised
             ELSE Parsed([k \in 1..Len(w.items) |-> NewsApiArticle(w.items[k])])

\* lines 84-123: the branch on api_type
parse_response(api_type, data) ==
    CASE api_type = "wikipedia" -> parse_wikipedia(data)
      [] api_type = "newsdata"  -> parse_newsdata(data)
      [] OTHER                  -> parse_newsapi(data)

\* API_CONFIGS, by the "type" of each entry
API_CONFIGS == <<"newsapi", "newsdata", "wikipedia">>

\* ------------------------------------ fetch_from_gemini_sentiment_intent
\* What one call of model.generate_content does: it answers with a reply
\* text (ok) or raises an exception whose message is text.
GeminiReply(txt) == [ok |-> TRUE, text |-> txt]

GeminiError(msg) == [ok |-> FALSE, text |-> msg]

ERROR_PREFIX == <<"[", "G", "e", "m", "i", "n", "i", " ", "A", "P", "I", " ", "e", "r", "r", "o", "r", ":", " ">>

\* lines 165-170; the prompt built from prompt_text and harm_words goes to
\* the service, whose outcome is the environment's
fetch_from_gemini_sentiment_intent(prompt_text, harm_words, outcome) ==
    IF outcome.ok THEN strip(outcome.text)
    ELSE ERROR_PREFIX \o outcome.text \o <<"]">>

\* ------------------------------------------------------- full_categorize
SENTIMENT_TOKEN == <<"S", "E", "N", "T", "I", "M", "E", "N", "T", "=">>

INTENT_TOKEN == <<"I", "N", "T", "E", "N", "T", "=">>

NoLabels == [sentiment |-> <<>>, intent |-> <<>>, reason |-> <<>>]

\* the extraction entered when either token is there
extract_labels_either(gemini_result) ==
    IF StrIn(SENTIMENT_TOKEN, gemini_result) \/ StrIn(INTENT_TOKEN, gemini_result)
    THEN LET ms == search_label(SENTIMENT_TOKEN, gemini_result)
             mi == search_label(INTENT_TOKEN, gemini_result)
             mr == search_reason(gemini_result)
         IN  IF ~ms.found THEN NoLabels
             ELSE IF ~mi.found
                  THEN [sentiment |-> ms.group, intent |-> <<>>, reason |-> <<>>]
                  ELSE [sentiment |-> ms.group, intent |-> mi.group,
                        reason |-> IF mr.found THEN strip(mr.group) ELSE <<>>]
    ELSE NoLabels

\* lines 193-203: a failed re.search makes .group raise AttributeError,
\* which the except clause swallows; what was assigned before stays
extract_labels(gemini_result) ==
    IF StrIn(SENTIMENT_TOKEN, gemini_result) /\ StrIn(INTENT_TOKEN, gemini_result)
    THEN LET ms == search_label(SENTIMENT_TOKEN, gemini_result)
             mi == search_label(INTENT_TOKEN, gemini_result)
             mr == search_reason(gemini_result)
         IN  IF ~ms.found THEN NoLabels
             ELSE IF ~mi.found
                  THEN [sentiment |-> ms.group, intent |-> <<>>, reason |-> <<>>]
                  ELSE [sentiment |-> ms.group, intent |-> mi.group,
                        reason |-> IF mr.found THEN strip(mr.group) ELSE <<>>]
    ELSE NoLabels

\* the flag also set by a detected lexicon term
is_harmful_or_words(intent_label, harmful_words) ==
    startswith(intent_label, <<"h", "a", "r", "m", "f", "u", "l">>) \/ harmful_words # {}

\* line 206: of the values at hand only intent_label is read
is_harmful(intent_label, harmful_words) == startswith(intent_label, <<"h", "a", "r", "m", "f", "u", "l">>)

\* lines 179-182: the lexicon terms that are a substring of a keyword
harmful_in_keywords(article) ==
    LET kws == IF kw_truthy(article.keywords) THEN article.keywords.l ELSE <<>>
    IN  {word \in Range(HARMFUL_KEYWORDS) :
            \E k \in 1..Len(kws) : StrIn(word, lower(kws[k]))}

\* lines 177-183
harmful_words_of(article) ==
    Range(detect_harmful_words(article.title))
        \cup Range(detect_harmful_words(article.description))
        \cup harmful_in_keywords(article)

\* lines 180 and 186: walking a keywords value that is a number raises
\* TypeError, and so does adding a str to a title or description that is one
categorize_raises(article) ==
    \/ article.keywords.t = "num"
    \/ truthy(article.title) /\ article.title.t # "str"
    \/ truthy(article.description) /\ article.description.t # "str"

\* line 186
compose_text(article) ==
    Or(article.title, Str(<<>>)).s \o <<".", " ">> \o Or(article.description, Str(<<>>)).s

\* lines 176-213 for one article that does not raise
categorize_article(article, outcome) ==
    LET harmful_words == harmful_words_of(article)
        gemini_result == fetch_from_gemini_sentiment_intent(
                             compose_text(article), harmful_words, outcome)
        labels == extract_labels(gemini_result)
    IN  [harmful |-> is_harmful(labels.intent, harmful_words),
         harmful_words |-> SetToList(harmful_words),
         gemini_sentiment |-> labels.sentiment,
         gemini_intent |-> labels.intent,
         gemini_reason |-> labels.reason,
         gemini_raw |-> gemini_result] @@ article

\* ------------------------------------------------------------------ state
VARIABLES
    pc,            \* where the run is
    api_configs,   \* fetch_all_news: the api_configs argument (types)
    http,          \* http[k]: the outcome of the request to source k
    i,             \* fetch_all_news: index of the source the loop is at
    all_articles,  \* fetch_all_news: all_articles; full_categorize: articles
    log,           \* the [ERROR] / [WARN] / [INFO] line printed per source
    gemini,        \* gemini[k]: the outcome of the k-th generate_content call
    j,             \* full_categorize: index of the article the loop is at
    categorized,   \* full_categorize: categorized
    detect_text,   \* detect_harmful_words: the text argument
    detect_found   \* detect_harmful_words: the returned list

vars == <<pc, api_configs, http, i, all_articles, log, gemini, j, categorized,
          detect_text, detect_found>>

LogLine(level, n) == [level |-> level, n |-> n]

\* the request of source k without the try: the exception escapes
on_request_error_raise(k) == [pc |-> "fetch_raised", i |-> k, logged |-> <<>>]

\* lines 79-81: the error is printed and the loop goes on to source k + 1
on_request_error(k) ==
    [pc |-> "fetch", i |-> k + 1, logged |-> <<LogLine("ERROR", 0)>>]

\* the new articles put in front of the list
extend_front(all, articles) == articles \o all

\* line 126: all_articles.extend(articles)
extend(all, articles) == all \o articles

\* lines 46-126: one turn of the loop over api_configs
FetchSource ==
    /\ pc = "fetch"
    /\ i <= Len(api_configs)
    /\ LET r == http[i]
           p == parse_response(api_configs[i], r.data)
       IN  IF ~r.ok
           THEN /\ pc' = on_request_error(i).pc
                /\ i' = on_request_error(i).i
                /\ log' = log \o on_request_error(i).logged
                /\ UNCHANGED all_articles
           ELSE IF p.result = "raise"
           THEN /\ pc' = "fetch_raised"
                /\ UNCHANGED <<i, all_articles, log>>
           ELSE IF p.result = "continue"
           THEN /\ log' = Append(log, LogLine("WARN", 0))
                /\ i' = i + 1
                /\ UNCHANGED <<pc, all_articles>>
           ELSE /\ log' = Append(log, LogLine("INFO", Len(p.articles)))
                /\ all_articles' = extend(all_articles, p.articles)
                /\ i' = i + 1
                /\ UNCHANGED pc
    /\ UNCHANGED <<api_configs, http, gemini, j, categorized, detect_text, detect_found>>

\* lines 128-129
FetchReturn ==
    /\ pc = "fetch"
    /\ i > Len(api_configs)
    /\ pc' = "returned"
    /\ UNCHANGED <<api_configs, http, i, all_articles, log, gemini, j, categorized,
                   detect_text, detect_found>>

\* line 230 and lines 173-174
CallCategorize ==
    /\ pc = "returned"
    /\ pc' = "categorize"
    /\ j' = 1
    /\ categorized' = <<>>
    /\ UNCHANGED <<api_configs, http, i, all_articles, log, gemini,
                   detect_text, detect_found>>

\* lines 175-215: one turn of the loop over articles; the article is
\* enriched in place and appended to categorized
Categorize ==
    /\ pc = "categorize"
    /\ j <= Len(all_articles)
    /\ IF categorize_raises(all_articles[j])
       THEN /\ pc' = "categorize_raised"
            /\ UNCHANGED <<all_articles, j, categorized>>
       ELSE LET article == categorize_article(all_articles[j], gemini[j])
            IN  /\ all_articles' = [all_articles EXCEPT ![j] = article]
                /\ categorized' = Append(categorized, article)
                /\ j' = j + 1
                /\ UNCHANGED pc
    /\ UNCHANGED <<api_configs, http, i, log, gemini, detect_text, detect_found>>

\* line 217
CategorizeReturn ==
    /\ pc = "categorize"
    /\ j > Len(all_articles)
    /\ pc' = "done"
    /\ UNCHANGED <<api_configs, http, i, all_articles, log, gemini, j, categorized,
                   detect_text, detect_found>>

\* lines 132-138
DetectHarmfulWords ==
    /\ pc = "detect"
    /\ detect_found' = detect_harmful_words(detect_text)
    /\ pc' = "detected"
    /\ UNCHANGED <<api_configs, http, i, all_articles, log, gemini, j, categorized,
                   detect_text>>

\* ----------------------------------------------------------------- inputs
\* the sequences over S of length lo..hi
SeqsOf(S, lo, hi) == UNION {[1..n -> S] : n \in lo..hi}

\* the concatenation of a sequence of sequences
RECURSIVE Flatten(_)
Flatten(qs) == IF qs = <<>> THEN <<>> ELSE Head(qs) \o Flatten(Tail(qs))

\* the sequences whose k-th element is drawn from sets[k]
RECURSIVE Product(_)
Product(sets) ==
    IF sets = <<>> THEN {<<>>}
    ELSE {<<x>> \o rest : x \in Head(sets), rest \in Product(Tail(sets))}

\* l with x put in at position p
InsertAt(l, p, x) == SubSeq(l, 1, p - 1) \o <<x>> \o SubSeq(l, p, Len(l))

TYPES == {"newsapi", "newsdata", "wikipedia"}

\* the value of the status field each provider sends on success
OkStatus(api_type) ==
    IF api_type = "newsdata" THEN Str(<<"s", "u", "c", "c", "e", "s", "s">>) ELSE Str(<<"o", "k">>)

\* two ordinary records per provider
PlainItems(api_type) ==
    CASE api_type = "wikipedia" ->
           {[Item(Str(<<"S", "c", "a", "m">>), Str(<<"a", " ", "<", "b", ">", "b", "o", "m", "b", "<", "/", "b", ">", " ", "h", "o", "a", "x">>), KwMissing)
                EXCEPT !.pageid = Num(<<"7">>)],
            [Item(Str(<<"K", "i", "t", "e", "s">>), Missing, KwMissing)
                EXCEPT !.pageid = Num(<<"8">>)]}
      [] api_type = "newsdata" ->
           {[Item(Str(<<"B", "a", "n", "k", " ", "f", "r", "a", "u", "d">>), Str(<<"b", "a", "d", " ", "n", "e", "w", "s">>), KwList(<< <<"s", "c", "a", "m", "m", "e", "r", "s">> >>))
                EXCEPT !.source_id = Str(<<"b", "b", "c">>), !.link = Str(<<"h", "t", "t", "p", ":", "/", "/", "d", "/", "1">>)],
            [Item(Null, Null, KwNull)
                EXCEPT !.name = Str(<<"T", "h", "e", " ", "S", "t", "a", "r">>)]}
      [] OTHER ->
           {[Item(Str(<<"H", "a", "c", "k", "a", "t", "h", "o", "n">>), Str(<<"n", "o", " ", "t", "h", "r", "e", "a", "t">>), KwMissing)
                EXCEPT !.name = Str(<<"C", "N", "N">>), !.pub_date = Str(<<"2", "0", "2", "5">>)],
            [Item(Str(<<"W", "e", "a", "t", "h", "e", "r">>), Null, KwMissing)
                EXCEPT !.source = "missing"]}

\* records with absent, null, empty and wrongly typed fields
OddItems(api_type) ==
    LET base == Item(Str(<<"t">>), Str(<<"d">>), KwMissing)
        texts == {[base EXCEPT !.text = v] :
                     v \in {Missing, Null, Str(<<>>), Str(<<"<", "i", ">", "k", "i", "l", "l", "<", "/", "i", ">", "e", "d", " ", "<">>),
                            Num(<<"0">>), Num(<<"4", "2">>)}}
        kws == {[base EXCEPT !.keywords = v] :
                   v \in {KwNull, KwList(<<>>), KwList(<< <<"F", "r", "a", "u", "d">>, <<"x">> >>), KwNum}}
        sources == {[base EXCEPT !.source = v] : v \in {"missing", "null", "other"}}
                       \cup {[base EXCEPT !.name = v] : v \in {Null, Str(<<"n">>)}}
                       \cup {[base EXCEPT !.source_id = Str(<<>>), !.name = Null]}
        titles == {[base EXCEPT !.title = v] : v \in {Missing, Num(<<"5">>)}}
    IN  texts \cup kws \cup sources \cup titles \cup {[base EXCEPT !.dict = FALSE]}

\* the lists of at most maxlen records that take the two in turn
PlainLists(api_type, maxlen) ==
    LET pair == SetToList(PlainItems(api_type))
    IN  {[k \in 1..n |-> pair[((k + o) % Len(pair)) + 1]] : n \in 0..maxlen, o \in 1..Len(pair)}

\* the small repertoire of one source: a failed request, a well-formed
\* answer, an answer with a failure status
PlainResults(api_type) ==
    {HttpFail("timeout")}
        \cup {HttpOk(Body(OkStatus(api_type), l)) : l \in PlainLists(api_type, MaxItems)}
        \cup {HttpOk(Body(Str(<<"e", "r", "r", "o", "r">>), l)) : l \in PlainLists(api_type, 1) \ {<<>>}}

\* the failures of lines 76-78
FetchErrors == {"connection", "timeout", "status", "not json"}

\* bodies that are JSON but not of the expected shape
OddBodies(api_type) ==
    LET b == Body(OkStatus(api_type), <<>>)
    IN  {[b EXCEPT !.top = "other"]}
            \cup {[b EXCEPT !.query = v] : v \in {"missing", "null", "other"}}
            \cup {[b EXCEPT !.list = v] : v \in {"missing", "null", "other"}}

\* the large repertoire of one source
OddResults(api_type) ==
    {HttpFail(e) : e \in FetchErrors}
        \cup {HttpOk(b) : b \in OddBodies(api_type)}
        \cup {HttpOk(Body(st, l)) :
                 st \in {Missing, Null, Str(<<"o", "k">>), Str(<<"s", "u", "c", "c", "e", "s", "s">>), Str(<<"e", "r", "r", "o", "r">>)},
                 l \in PlainLists(api_type, 1)}
        \cup UNION {{HttpOk(Body(OkStatus(api_type), InsertAt(l, p, x))) :
                        p \in 1..(Len(l) + 1), x \in OddItems(api_type)} :
                     l \in PlainLists(api_type, MaxItems - 1)}

\* the answers of the sources of cfg: one from the large repertoire, the
\* others a failed request or a well-formed answer
CalmResults(api_type) ==
    {HttpFail("timeout")}
        \cup {HttpOk(Body(OkStatus(api_type), l)) : l \in PlainLists(api_type, 1)}

OddResultsOf == [t \in TYPES |-> OddResults(t)]

CalmResultsOf == [t \in TYPES |-> CalmResults(t)]

PlainResultsOf == [t \in TYPES |-> PlainResults(t)]

FetchWorlds(cfg) ==
    UNION {Product([k \in 1..Len(cfg) |->
                       IF k = odd THEN OddResultsOf[cfg[k]] ELSE CalmResultsOf[cfg[k]]]) :
              odd \in 1..Len(cfg)}

\* the parts classifier replies and exception messages are made of
ReplyParts ==
    {<<"S", "E", "N", "T", "I", "M", "E", "N", "T", "=", "n", "e", "g", "a", "t", "i", "v", "e", "2", " ">>, <<"S", "E", "N", "T", "I", "M", "E", "N", "T", "=">>, <<"I", "N", "T", "E", "N", "T", "=", "h", "a", "r", "m", "f", "u", "l", "2", " ">>,
     <<"I", "N", "T", "E", "N", "T", "=", "h", "a", "r", "m", "l", "e", "s", "s", "1", " ">>, <<"I", "N", "T", "E", "N", "T", "=">>, <<" ", "R", "E", "A", "S", "O", "N", "=", "h", "i", "g", "h", " ", "r", "i", "s", "k", " ">>}

ReplyTexts == {Flatten(q) : q \in SeqsOf(ReplyParts, 0, MaxReplyParts)}

MessageTexts == {Flatten(q) : q \in SeqsOf(ReplyParts, 0, MaxReplyParts - 1)}

GeminiOutcomes ==
    {GeminiReply(t) : t \in ReplyTexts} \cup {GeminiError(t) : t \in MessageTexts}

\* a reply in the requested layout, and a failed call
FewOutcomes ==
    {GeminiReply(<<"S", "E", "N", "T", "I", "M", "E", "N", "T", "=", "n", "e", "g", "a", "t", "i", "v", "e", "2", " ", "I", "N", "T", "E", "N", "T", "=", "h", "a", "r", "m", "f", "u", "l", "2", " ", "R", "E", "A", "S", "O", "N", "=", "h", "i", "g", "h", " ", "r", "i", "s", "k", " ", "s", "c", "a", "m", " ", "l", "a", "n", "g", "u", "a", "g", "e">>),
     GeminiError(<<"5", "0", "3", " ", "u", "n", "a", "v", "a", "i", "l", "a", "b", "l", "e">>)}

\* articles as fetch_all_news makes them
PlainArticles ==
    {NewsDataArticle(x) : x \in PlainItems("newsdata")}

OddArticle == NewsDataArticle(Item(Str(<<"t">>), Num(<<"4", "2">>), KwMissing))

ArticleLists ==
    LET pair == SetToList(PlainArticles)
    IN  {[k \in 1..n |-> pair[((k + o) % Len(pair)) + 1]] :
            n \in 1..MaxArticles, o \in 1..Len(pair)}
        \cup {<<OddArticle>>}
        \cup {<<a, OddArticle>> : a \in PlainArticles}

\* the parts the texts handed to detect_harmful_words are made of
TextParts == {<<"s", "c", "a", "m">>, <<"S", "c", "a", "m">>, <<"m", "e", "r">>, <<"b", "a", "d">>, <<" ">>, <<"_">>, <<"!">>}

DetectTexts ==
    {Str(Flatten(q)) : q \in SeqsOf(TextParts, 0, MaxTextParts)}
        \cup {None, Num(<<"0">>), Num(<<"7">>),
              Str(<<"T", "h", "i", "s", " ", "i", "s", " ", "a", " ", "s", "c", "a", "m", " ", "a", "l", "e", "r", "t">>), Str(<<"K", "I", "L", "L", " ", "t", "h", "e", " ", "a", "t", "t", "a", "c", "k", "l", "i", "n", "e", ",", " ", "s", "h", "o", "o", "t", "\n", "t", "e", "r", "r", "o", "r">>)}

\* ---------------------------------------------------------- specifications
Idle ==
    /\ detect_text = None
    /\ detect_found = <<>>

\* the program: fetch_all_news(API_CONFIGS, ...), then full_categorize
Init ==
    /\ pc = "fetch"
    /\ api_configs = API_CONFIGS
    /\ http \in Product([k \in 1..Len(API_CONFIGS) |-> PlainResultsOf[API_CONFIGS[k]]])
    /\ \E a \in FewOutcomes, b \in FewOutcomes :
         gemini = [k \in 1..(Len(API_CONFIGS) * MaxItems) |->
                      IF k % 2 = 1 THEN a ELSE b]
    /\ i = 1
    /\ all_articles = <<>>
    /\ log = <<>>
    /\ j = 0
    /\ categorized = <<>>
    /\ Idle

Next == FetchSource \/ FetchReturn \/ CallCategorize \/ Categorize \/ CategorizeReturn

Spec == Init /\ [][Next]_vars

\* fetch_all_news on its own, over lists of sources and their answers
InitFetch ==
    /\ pc = "fetch"
    /\ api_configs \in {c \in SeqsOf(TYPES, 1, MaxSources) :
                           \A a, b \in 1..Len(c) : c[a] = c[b] => a = b}
    /\ http \in FetchWorlds(api_configs)
    /\ gemini = <<>>
    /\ i = 1
    /\ all_articles = <<>>
    /\ log = <<>>
    /\ j = 0
    /\ categorized = <<>>
    /\ Idle

NextFetch == FetchSource \/ FetchReturn

SpecFetch == InitFetch /\ [][NextFetch]_vars

\* full_categorize on its own, over article lists and classifier outcomes
InitCategorize ==
    /\ pc = "categorize"
    /\ api_configs = <<>>
    /\ http = <<>>
    /\ i = 1
    /\ all_articles \in ArticleLists
    /\ log = <<>>
    /\ \E first \in GeminiOutcomes :
         \E rest \in {first} \cup FewOutcomes :
            gemini = [k \in 1..Len(all_articles) |-> IF k = 1 THEN first ELSE rest]
    /\ j = 1
    /\ categorized = <<>>
    /\ Idle

NextCategorize == Categorize \/ CategorizeReturn

SpecCategorize == InitCategorize /\ [][NextCategorize]_vars

\* detect_harmful_words on its own, over texts
InitDetect ==
    /\ pc = "detect"
    /\ api_configs = <<>>
    /\ http = <<>>
    /\ gemini = <<>>
    /\ i = 1
    /\ all_articles = <<>>
    /\ log = <<>>
    /\ j = 0
    /\ categorized = <<>>
    /\ detect_text \in DetectTexts
    /\ detect_found = <<>>

NextDetect == DetectHarmfulWords

SpecDetect == InitDetect /\ [][NextDetect]_vars

\* ------------------------------------------------------------------ claims
\* what source k adds to all_articles: the articles of its records when the
\* request succeeded and the response was neither skipped nor raised on
Contribution(k) ==
    LET p == parse_response(api_configs[k], http[k].data)
    IN  IF http[k].ok /\ p.result = "articles" THEN p.articles ELSE <<>>

\* the contributions of the sources 1..n, in configuration order
ContributionsUpTo(n) == Flatten([k \in 1..n |-> Contribution(k)])

\* article a with the fields full_categorize adds taken off again
AsFetched(a) ==
    [f \in {"source", "title", "description", "link", "pub_date", "keywords",
            "api_type"} |-> a[f]]

HasPrefixHarmful(s) == Len(s) >= Len(<<"h", "a", "r", "m", "f", "u", "l">>) /\ SubSeq(s, 1, Len(<<"h", "a", "r", "m", "f", "u", "l">>)) = <<"h", "a", "r", "m", "f", "u", "l">>

AllEmpty(a) ==
    /\ a.gemini_sentiment = <<>>
    /\ a.gemini_intent = <<>>
    /\ a.gemini_reason = <<>>

\* C1: every categorized article is flagged harmful exactly when its
\* gemini_intent starts with "harmful", and two articles with the same
\* classifier reply carry the same flag whatever their harmful_words are.
C1_HarmfulIffIntentPrefix ==
    /\ \A k \in 1..Len(categorized) :
         categorized[k].harmful <=> HasPrefixHarmful(categorized[k].gemini_intent)
    /\ \A a, b \in 1..Len(categorized) :
         categorized[a].gemini_raw = categorized[b].gemini_raw
             => categorized[a].harmful = categorized[b].harmful

\* two articles got the same reply, one has harmful words and the other has
\* none, and both are flagged
C1_Witness ==
    \E a, b \in 1..Len(categorized) :
        /\ categorized[a].gemini_raw = categorized[b].gemini_raw
        /\ categorized[a].harmful_words = <<>>
        /\ categorized[b].harmful_words # <<>>
        /\ categorized[a].harmful
        /\ categorized[b].harmful

\* the body of a provider response has the provider's shape: an object
\* whose containers, where present, are objects and lists of objects
ExpectedShape(api_type, data) ==
    /\ data.top = "obj"
    /\ data.query \in {"obj", "missing"}
    /\ data.list \in {"list", "missing"}
    /\ \A k \in 1..Len(data.items) :
         /\ data.items[k].dict
         /\ data.items[k].source \in {"obj", "missing"}
         /\ api_type = "wikipedia" => data.items[k].text.t \in {"str", "missing"}

\* exactly one request failed; every other source answered in shape
OneFailsOthersSucceed ==
    /\ Cardinality({k \in 1..Len(http) : ~http[k].ok}) = 1
    /\ \A k \in 1..Len(http) :
         http[k].ok => ExpectedShape(api_configs[k], http[k].data)

\* C2: when exactly one source's request fails and the others succeed,
\* fetch_all_news does not raise, goes through every source, and returns the
\* articles of the other sources in configuration order.
C2_OneFailureIsSkipped ==
    OneFailsOthersSucceed =>
        /\ pc # "fetch_raised"
        /\ Len(log) = i - 1
        /\ pc = "returned" =>
             /\ Len(log) = Len(api_configs)
             /\ all_articles = ContributionsUpTo(Len(api_configs))

\* the first source failed, a later one succeeded with articles, and the
\* call returned them
C2_Witness ==
    /\ pc = "returned"
    /\ OneFailsOthersSucceed
    /\ Len(api_configs) >= 2
    /\ ~http[1].ok
    /\ all_articles # <<>>

\* C3: every article fetch_all_news emits has a str description and a list
\* for keywords.
C3_DescriptionStrKeywordsList ==
    \A k \in 1..Len(all_articles) :
        /\ all_articles[k].description.t = "str"
        /\ all_articles[k].keywords.t = "list"

\* C4: a reply that lacks "SENTIMENT=" or lacks "INTENT=" leaves the three
\* classification fields empty and the article unflagged.
C4_MissingTokenLeavesAllEmpty ==
    \A k \in 1..Len(categorized) :
        (~StrIn(SENTIMENT_TOKEN, categorized[k].gemini_raw)
            \/ ~StrIn(INTENT_TOKEN, categorized[k].gemini_raw))
        => AllEmpty(categorized[k]) /\ ~categorized[k].harmful

\* a reply with a harmful INTENT= label and a REASON= part but no SENTIMENT=
C4_Witness ==
    \E k \in 1..Len(categorized) :
        /\ gemini[k].ok
        /\ StrIn(<<"I", "N", "T", "E", "N", "T", "=", "h", "a", "r", "m", "f", "u", "l", "2">>, categorized[k].gemini_raw)
        /\ StrIn(REASON_TOKEN, categorized[k].gemini_raw)
        /\ ~StrIn(SENTIMENT_TOKEN, categorized[k].gemini_raw)
        /\ AllEmpty(categorized[k])
        /\ ~categorized[k].harmful

\* C5: an article whose classification call raised, whatever the message,
\* has the three classification fields empty and is not flagged.
C5_FailedCallNeverHarmful ==
    \A k \in 1..Len(categorized) :
        ~gemini[k].ok => AllEmpty(categorized[k]) /\ ~categorized[k].harmful

\* C6: fetching is over before classification starts; articles are
\* classified one at a time in list order, the k-th call for the k-th
\* article; the final sequence is the sources' records in configuration
\* order and, within a source, in the response's order.
C6_OrderIsKept ==
    /\ pc \in {"categorize", "categorize_raised", "done"} =>
         /\ i > Len(api_configs)
         /\ Len(all_articles) = Len(ContributionsUpTo(Len(api_configs)))
         /\ Len(categorized) = j - 1
         /\ \A k \in 1..Len(all_articles) :
              /\ AsFetched(all_articles[k]) = ContributionsUpTo(Len(api_configs))[k]
              /\ k <= Len(categorized) <=>  "gemini_raw" \in DOMAIN all_articles[k]
         /\ \A k \in 1..Len(categorized) :
              /\ categorized[k] = all_articles[k]
              /\ categorized[k].gemini_raw =
                   fetch_from_gemini_sentiment_intent(<<>>, {}, gemini[k])
    /\ pc \in {"fetch", "fetch_raised", "returned"} =>
         /\ categorized = <<>>
         /\ all_articles = ContributionsUpTo(i - 1)
    /\ pc = "done" => Len(categorized) = Len(all_articles)

\* a finished run over three sources that each gave two records
C6_Witness ==
    /\ pc = "done"
    /\ \A k \in 1..Len(api_configs) : Len(Contribution(k)) = MaxItems
    /\ Len(categorized) = Len(api_configs) * MaxItems
    /\ categorized[1] # categorized[MaxItems]

\* C7: fetch_all_news never raises, whatever a source answers.
C7_FetchNeverRaises == pc # "fetch_raised"

\* the maximal runs of \w characters of s, in lower case
WordsOf(s) ==
    {lower(SubSeq(s, a, b)) : <<a, b>> \in
        {<<a, b>> \in (1..Len(s)) \X (1..Len(s)) :
            /\ a <= b
            /\ \A k \in a..b : IsWordChar(s[k])
            /\ a = 1 \/ ~IsWordChar(s[a - 1])
            /\ b = Len(s) \/ ~IsWordChar(s[b + 1])}}

\* C8: detect_harmful_words returns, each once, exactly the lexicon terms
\* that are a whole word of the text, whatever the case; nothing for an
\* empty or null text.
C8_WholeWordTerms ==
    pc = "detected" =>
        /\ Range(detect_found) =
             IF truthy(detect_text)
             THEN Range(HARMFUL_KEYWORDS) \cap WordsOf(str(detect_text))
             ELSE {}
        /\ Cardinality(Range(detect_found)) = Len(detect_found)
        /\ detect_text \in {None, Str(<<>>)} => detect_found = <<>>
        /\ detect_text = Str(<<"T", "h", "i", "s", " ", "i", "s", " ", "a", " ", "s", "c", "a", "m", " ", "a", "l", "e", "r", "t">>) => detect_found = << <<"s", "c", "a", "m">> >>
        /\ detect_text = Str(<<"s", "c", "a", "m", "m", "e", "r">>) => detect_found = <<>>

\* two terms were found as words of their own, one written with a capital
C8_Witness ==
    /\ pc = "detected"
    /\ detect_text = Str(<<"S", "c", "a", "m", " ", "b", "a", "d">>)
    /\ Range(detect_found) = {<<"s", "c", "a", "m">>, <<"b", "a", "d">>}

\* the response is one the code skips with a warning
StatusRefused(api_type, data) ==
    \/ api_type = "newsdata" /\ Get(data.status) # Str(<<"s", "u", "c", "c", "e", "s", "s">>)
    \/ api_type \notin {"wikipedia", "newsdata"} /\ Get(data.status) # Str(<<"o", "k">>)

\* C9 as stated: of the sources gone through whose request succeeded, only
\* a newsdata response whose status is not "success" is left out.
C9_OnlyNewsDataStatusDiscards ==
    \A k \in 1..Len(log) :
        (http[k].ok
            /\ ~(api_configs[k] = "newsdata" /\ Get(http[k].data.status) # Str(<<"s", "u", "c", "c", "e", "s", "s">>)))
        => log[k].level = "INFO"

\* C9 amended: a source gone through whose request succeeded is left out
\* exactly when it is a newsdata response whose status is not "success" or
\* a newsapi response whose status is not "ok"; otherwise all its records
\* are appended.
C9_StatusDiscardsNewsDataAndNewsApi ==
    /\ \A k \in 1..Len(log) :
         http[k].ok =>
            /\ log[k].level = "WARN" <=> StatusRefused(api_configs[k], http[k].data)
            /\ log[k].level = "INFO" <=> ~StatusRefused(api_configs[k], http[k].data)
            /\ log[k].level = "INFO" =>
                 log[k].n = Len(WalkList(http[k].data).items)
    /\ Len(all_articles) = Len(ContributionsUpTo(Len(log)))

\* a newsapi response with an articles list and a status other than "ok"
\* was left out, and a later source was appended
C9_Witness ==
    \E k \in 1..Len(log) :
        /\ api_configs[k] = "newsapi"
        /\ http[k].ok
        /\ http[k].data.items # <<>>
        /\ Get(http[k].data.status) # Str(<<"o", "k">>)
        /\ log[k].level = "WARN"
        /\ k < Len(log)
        /\ log[Len(log)].level = "INFO"
        /\ all_articles # <<>>

\* C10: after full_categorize an article has both labels, or none of the
\* three classification fields.
C10_AllOrNothing ==
    \A k \in 1..Len(categorized) :
        \/ categorized[k].gemini_sentiment # <<>> /\ categorized[k].gemini_intent # <<>>
        \/ AllEmpty(categorized[k])

====
